---- MODULE Spec2Model ----
(***************************************************************************)
(* Strategy dashboard: the selectable table (CollapsibleTable) and the     *)
(* batch action dialogs of the toolbar (ActionToolbar: edit state, reset   *)
(* models, cancel ongoing operation, lifecycle command).                   *)
(*                                                                         *)
(* The UI runs on one event loop.  One action of the model is one event    *)
(* handler together with the promise continuations (microtasks) it         *)
(* triggers: no user event or network response is handled between them.    *)
(***************************************************************************)
EXTENDS Integers, Sequences, FiniteSets, TLC

VARIABLES
  rows,               \* CollapsibleTable props.rows (Strategy: rows || [])
  strats,             \* resp.strats, the cached result of STRATEGIES_GQL
  crashed,            \* a render threw (no error boundary): the tree is unmounted
  selected,           \* CollapsibleTable state `selected` (string[])
  open,               \* ActionToolbar state openEditState, openResetModels, ...
  responses,          \* state `responses` of each modal
  loading,            \* `loading` of each modal's mutation hook
  mostRecent,         \* the hook's latest mutation call, <<run, index>>
  runs,               \* the invocations of the submit handlers, in order
  mutableField,       \* EditStateModal state
  mutableFieldValue,  \* EditStateModal state
  lifecycleCmd,       \* StopStratModal state
  order,              \* CollapsibleTable state `order` ('asc' | 'desc')
  orderBy,            \* CollapsibleTable state `orderBy` (a column field)
  page,               \* CollapsibleTable state `page`
  rowsPerPage,        \* CollapsibleTable state `rowsPerPage`
  isExtended,         \* Strategy state `isExtended`
  rowOpen,            \* the open dialog of a row's own ActionToolbar: <<id, action>>
  rowRuns,            \* the submit handlers invoked from the rows' own dialogs
  expanded,           \* CollapsibleRow state `open` of the row with each id
  stored,             \* localStorage item 'targetHost', shared by the tabs
  apollo,             \* App state `apollo` of each tab: the uri of its client
  targetHost,         \* Settings state `targetHost` of each tab, while mounted
  pending             \* storage events not yet dispatched to each tab

vars == <<rows, strats, crashed, selected, open, responses, loading,
          mostRecent, runs, mutableField, mutableFieldValue, lifecycleCmd,
          order, orderBy, page, rowsPerPage, isExtended, rowOpen, rowRuns,
          expanded, stored, apollo, targetHost, pending>>

viewVars == <<order, orderBy, page, rowsPerPage, isExtended>>
rowVars == <<rowOpen, rowRuns>>
appVars == <<stored, apollo, targetHost, pending>>
tableVars == <<rows, strats, crashed, selected, viewVars, rowVars, expanded,
               appVars>>
formVars == <<mutableField, mutableFieldValue, lifecycleCmd>>
batchVars == <<responses, loading, mostRecent, runs>>

(***************************************************************************)
(* Bounds                                                                  *)
(***************************************************************************)
MaxRows == 3
MaxBatchRows == 2
MaxRuns == 2
MaxValue == 1
MaxPageRows == 6
MaxTabs == 2
MaxPending == 2

(***************************************************************************)
(* Data                                                                    *)
(***************************************************************************)
Actions == {"edit", "reset", "cancel", "lifecycle"}

MutableField == {"value_strat", "pnl", "nominal_position", "previous_value_strat"}

StrategyLifecycleCmd == {"RESTART", "STOP_TRADING", "RESUME_TRADING"}

\* useState(MutableField.NominalPosition), useState(0.0),
\* useState(StrategyLifecycleCmd.ResumeTrading)
InitialMutableField == "nominal_position"

InitialMutableFieldValue == 0

InitialLifecycleCmd == "RESUME_TRADING"

Null == "null"

Undefined == "undefined"

\* The strategies the server may report: (type, id) pairs of strings.
StratId(i) == CASE i = 1 -> "a" [] i = 3 -> "a_b" [] OTHER -> "s" \o ToString(i)

StratType(i) == CASE i = 1 -> "b_c" [] OTHER -> "c"

Strat(i) == [id |-> StratId(i), type |-> StratType(i)]

RECURSIVE SubLists(_)
\* The sub-lists of Strat(1..n), in server order.
SubLists(n) ==
  IF n = 0 THEN {<<>>}
  ELSE LET prev == SubLists(n - 1)
       IN  prev \cup {Append(l, Strat(n)) : l \in prev}

\* The orderings of a list.
Orderings(list) ==
  {[i \in 1..Len(list) |-> list[p[i]]] :
     p \in {q \in [1..Len(list) -> 1..Len(list)] :
              \A i, j \in 1..Len(list) : q[i] = q[j] => i = j}}

\* The lists a query may deliver: any strategies, in any order.
RowLists == UNION {Orderings(l) : l \in SubLists(MaxRows)}

\* The strategy list the pagination is exercised on: more than one page.
PageStrats == [i \in 1..MaxPageRows |-> Strat(i)]

\* The strategy list the batch dialogs are exercised on.
BatchStrats == [i \in 1..MaxBatchRows |-> Strat(i)]

Ids(list) == {list[i].id : i \in 1..Len(list)}

(***************************************************************************)
(* Array helpers, as the code uses them                                    *)
(***************************************************************************)
\* Array.prototype.indexOf, 0-based, -1 when absent.
IndexOf(arr, x) ==
  IF \E i \in 1..Len(arr) : arr[i] = x
  THEN (CHOOSE i \in 1..Len(arr) : arr[i] = x /\ \A j \in 1..(i - 1) : arr[j] # x) - 1
  ELSE -1

Min(x, y) == IF x < y THEN x ELSE y

\* Array.prototype.slice(from, to) with 0-based, end-exclusive indexes, both
\* clamped to the length of the array.
Slice(arr, from, to) ==
  LET lo == Min(from, Len(arr))
      hi == Min(to, Len(arr))
  IN  IF lo < hi THEN SubSeq(arr, lo + 1, hi) ELSE <<>>

\* Array.prototype.find: the first element satisfying s.id === id.
FindStrat(list, id) ==
  list[CHOOSE i \in 1..Len(list) :
         list[i].id = id /\ \A j \in 1..(i - 1) : list[j].id # id]

\* find() returns undefined when no element has this id.
FindsStrat(list, id) == \E i \in 1..Len(list) : list[i].id = id

stratKey(strat) == strat.id \o "_" \o strat.type

\* Mutant of ToolbarRows: the handler is given every strategy of the cache.
ToolbarRowsAll(sel, cache) == cache

\* ActionToolbar: rows = selected.map((id) => resp.strats.find(...))
ToolbarRows(sel, cache) == [i \in 1..Len(sel) |-> FindStrat(cache, sel[i])]

\* A modal's render (gridRows) throws on a row that find() did not find.
RenderThrows(sel, cache) == \E i \in 1..Len(sel) : ~FindsStrat(cache, sel[i])

\* <<>> : no row has a dialog of its own open.
NoRowDialog == <<>>

\* A modal dialog covers the page while it is open.
NoDialogOpen == (\A a \in Actions : ~open[a]) /\ rowOpen = NoRowDialog

\* {} : an object without keys.
EmptyObject == [k \in {} |-> Null]

(***************************************************************************)
(* Strategy: columns and the rows of the extended query                    *)
(***************************************************************************)
defaultSortCol == "id"

columns ==
  <<[field |-> "id", headerName |-> "ID"],
    [field |-> "type", headerName |-> "Type"]>>

extended_columns ==
  <<[field |-> "state", headerName |-> "Position"],
    [field |-> "state", headerName |-> "PnL"],
    [field |-> "state", headerName |-> "Value Strat"],
    [field |-> "status", headerName |-> "Status"]>>

\* columns={isExtended ? columns.concat(extended_columns) : columns}
TableColumns(ext) == IF ext THEN columns \o extended_columns ELSE columns

Fields(cols) == {cols[i].field : i \in 1..Len(cols)}

\* The state (a JSON string) and status the extended query reports.
StratState(id) == IF id = "a" THEN "{pnl:2}" ELSE "{pnl:1}"

StratStatus(id) == IF id = "s2" THEN "stopped" ELSE "running"

\* A row of useStratsExtQuery: the strategy with its state and status.
ExtendedStrat(strat) ==
  [id |-> strat.id, type |-> strat.type,
   state |-> StratState(strat.id), status |-> StratStatus(strat.id)]

\* rows = isExtended ? stratsExtQuery?.data?.strats : data?.strats
QueryRows(ext, list) ==
  IF ext THEN [i \in 1..Len(list) |-> ExtendedStrat(list[i])] ELSE list

(***************************************************************************)
(* stableSort, descendingComparator, getComparator                         *)
(***************************************************************************)
\* The strings of the model in the order of JavaScript's < on strings
\* (UTF-16 code units: digits < '_' < letters < '{').
ValueOrder ==
  <<"a", "a_b", "b_c", "c", "running">>
  \o [i \in 1..9 |-> "s" \o ToString(i)]
  \o <<"stopped", "{pnl:1}", "{pnl:2}">>

Rank(v) == CHOOSE k \in 1..Len(ValueOrder) : ValueOrder[k] = v

\* row[orderBy]: undefined when the row has no such field.
Value(row, field) == IF field \in DOMAIN row THEN row[field] ELSE Undefined

\* x < y: false when either side is undefined.
Less(x, y) == x # Undefined /\ y # Undefined /\ Rank(x) < Rank(y)

descendingComparator(a, b, by) ==
  IF Less(Value(b, by), Value(a, by)) THEN -1
  ELSE IF Less(Value(a, by), Value(b, by)) THEN 1
  ELSE 0

\* Mutant of getComparator: the direction is ignored.
getComparatorAscending(ord, by, a, b) == -descendingComparator(a, b, by)

\* getComparator(order, orderBy)(a, b)
getComparator(ord, by, a, b) ==
  IF ord = "desc" THEN descendingComparator(a, b, by)
  ELSE -descendingComparator(a, b, by)

\* Mutant of stabilizedComparator: ties are broken by descending index.
stabilizedComparatorReversed(a, b, ord, by) ==
  LET cmp == getComparator(ord, by, a[1], b[1])
  IN  IF cmp # 0 THEN cmp ELSE b[2] - a[2]

\* The comparator stableSort hands to sort(), on [el, index] pairs.
stabilizedComparator(a, b, ord, by) ==
  LET cmp == getComparator(ord, by, a[1], b[1])
  IN  IF cmp # 0 THEN cmp ELSE a[2] - b[2]

\* x is put before the first element it compares less than.
InsertSorted(sorted, x, ord, by) ==
  LET before == {k \in 1..Len(sorted) :
                   stabilizedComparator(x, sorted[k], ord, by) < 0}
      pos == IF before = {} THEN Len(sorted) + 1
             ELSE CHOOSE k \in before : \A j \in before : k <= j
  IN  SubSeq(sorted, 1, pos - 1) \o <<x>> \o SubSeq(sorted, pos, Len(sorted))

RECURSIVE SortPairs(_, _, _, _)
\* Array.prototype.sort on the first n pairs.
SortPairs(pairs, n, ord, by) ==
  IF n = 0 THEN <<>>
  ELSE InsertSorted(SortPairs(pairs, n - 1, ord, by), pairs[n], ord, by)

stableSort(array, ord, by) ==
  LET stabilizedThis == [i \in 1..Len(array) |-> <<array[i], i - 1>>]
      sorted == SortPairs(stabilizedThis, Len(array), ord, by)
  IN  [i \in 1..Len(sorted) |-> sorted[i][1]]

\* Mutant of DisplayedRows: the page is cut from the rows before they are
\* sorted.
DisplayedRowsSliceFirst(list, ord, by, pg, rpp) ==
  stableSort(Slice(list, pg * rpp, pg * rpp + rpp), ord, by)

\* The rows of the table body: the sorted rows, sliced to the page.
DisplayedRows(list, ord, by, pg, rpp) ==
  Slice(stableSort(list, ord, by), pg * rpp, pg * rpp + rpp)

Displayed == DisplayedRows(rows, order, orderBy, page, rowsPerPage)

\* TablePagination
InitialRowsPerPage == 5

rowsPerPageOptions == <<5, 10, 25, 50, 100>>

(***************************************************************************)
(* CollapsibleRow: the expansion state of the mounted rows                 *)
(***************************************************************************)
RowIds == {StratId(i) : i \in 1..MaxPageRows} \cup {StratId(i) : i \in 1..MaxRows}

\* useState(false) in every row.
Collapsed == [id \in RowIds |-> FALSE]

\* <CollapsibleRow key={row.id}>: a row that is no longer in the table body
\* is unmounted and its state is gone; a row mounted again starts collapsed.
Remount(exp, displayed) ==
  IF exp = Collapsed THEN exp
  ELSE [id \in RowIds |-> exp[id] /\ id \in Ids(displayed)]

\* The expansion states after a step that renders the table body anew.
ExpandedAfter ==
  Remount(expanded, DisplayedRows(rows', order', orderBy', page', rowsPerPage'))

(***************************************************************************)
(* App and Settings: the target host, in every tab of the browser          *)
(***************************************************************************)
Tabs == 1..MaxTabs

servers ==
  <<[name |-> "Trader Prod Local", host |-> "http://localhost:8180"],
    [name |-> "Trader Dry Local", host |-> "http://localhost:8187"],
    [name |-> "Trader Prod VPN", host |-> "http://10.104.0.2:8180"],
    [name |-> "Trader Dry VPN", host |-> "http://10.104.0.2:8187"]>>

ServerHosts == {servers[i].host : i \in 1..Len(servers)}

\* useState(createClient('http://localhost:8180'))
DefaultTargetHost == "http://localhost:8180"

\* A value is truthy unless it is null or the empty string.
Truthy(item) == item # Null /\ item # ""

\* createClient: uri = localStorage.getItem('targetHost') || targetHost; the
\* client is represented by the uri of its link.
createClient(item, target) == IF Truthy(item) THEN item ELSE target

\* servers.find((s) => s.host == uri) || servers[0]
currentGraphQLUri(item) ==
  IF \E i \in 1..Len(servers) : servers[i].host = item
  THEN servers[CHOOSE i \in 1..Len(servers) :
                 servers[i].host = item
                 /\ \A j \in 1..(i - 1) : servers[j].host # item]
  ELSE servers[1]

\* Settings is not mounted in the tab.
NotMounted == Null

\* The tabs as they start on a browser whose localStorage holds `item`.
InitApp(item) ==
  /\ stored = item
  /\ apollo = [t \in Tabs |-> createClient(item, DefaultTargetHost)]
  /\ targetHost = [t \in Tabs |-> NotMounted]
  /\ pending = [t \in Tabs |-> 0]

(***************************************************************************)
(* Initial state: nothing loaded, nothing selected, every dialog closed    *)
(***************************************************************************)
\* The selections the clicks can build on a row set: ids of its rows, each
\* at most once, in any order.
Selections(list) ==
  {s \in UNION {[1..n -> Ids(list)] : n \in 0..Len(list)} :
     \A i, j \in 1..Len(s) : s[i] = s[j] => i = j}

InitOther ==
  /\ crashed = FALSE
  /\ open = [a \in Actions |-> FALSE]
  /\ responses = [a \in Actions |-> EmptyObject]
  /\ loading = [a \in Actions |-> FALSE]
  /\ mostRecent = [a \in Actions |-> <<0, 0>>]
  /\ runs = <<>>
  /\ mutableField = InitialMutableField
  /\ mutableFieldValue = InitialMutableFieldValue
  /\ lifecycleCmd = InitialLifecycleCmd
  /\ order = "asc"
  /\ orderBy = defaultSortCol
  /\ page = 0
  /\ rowsPerPage = InitialRowsPerPage
  /\ isExtended = FALSE
  /\ rowOpen = NoRowDialog
  /\ rowRuns = <<>>
  /\ expanded = Collapsed

Init ==
  /\ rows = <<>>
  /\ strats = <<>>
  /\ selected = <<>>
  /\ InitOther
  /\ InitApp(Null)

(***************************************************************************)
(* Strategy: the row set                                                   *)
(***************************************************************************)
\* The first result of useStratsQuery arrives.
StratsLoaded(list) ==
  /\ ~crashed
  /\ strats = <<>>
  /\ list # <<>>
  /\ rows' = QueryRows(isExtended, list)
  /\ strats' = list
  /\ UNCHANGED <<crashed, selected, open, formVars, batchVars, appVars, viewVars, rowVars>>
  /\ expanded' = ExpandedAfter

\* <CollapsibleRow key={row.id}>: the row with this id is in the table body.
RowMounted(id, list) ==
  id \in Ids(DisplayedRows(list, order, orderBy, page, rowsPerPage))

\* The row set is replaced: the other query is loading (rows || [] is
\* empty, the cache keeps the earlier result) or has delivered a new list.
ReplaceRows(list) ==
  /\ ~crashed
  /\ strats # <<>>
  /\ rows' = QueryRows(isExtended, list)
  /\ strats' = IF list = <<>> THEN strats ELSE list
  /\ crashed' = RenderThrows(selected, strats')
  /\ rowOpen' = IF rowOpen # NoRowDialog /\ RowMounted(rowOpen[1], rows')
                THEN rowOpen ELSE NoRowDialog
  /\ UNCHANGED <<selected, open, formVars, batchVars, appVars, viewVars, rowRuns>>
  /\ expanded' = ExpandedAfter

(***************************************************************************)
(* CollapsibleTable: selection                                             *)
(***************************************************************************)
\* Mutant of NewSelected: a pure add, an id already selected stays selected.
NewSelectedAddOnly(sel, id) ==
  IF IndexOf(sel, id) = -1 THEN Append(sel, id) ELSE sel

NewSelected(sel, id) ==
  LET selectedIndex == IndexOf(sel, id)
  IN  IF selectedIndex = -1 THEN Append(sel, id)
      ELSE IF selectedIndex = 0 THEN Slice(sel, 1, Len(sel))
      ELSE IF selectedIndex = Len(sel) - 1 THEN Slice(sel, 0, Len(sel) - 1)
      ELSE IF selectedIndex > 0
           THEN Slice(sel, 0, selectedIndex) \o Slice(sel, selectedIndex + 1, Len(sel))
      ELSE <<>>

\* A click on the row with this id.
handleClick(id) ==
  /\ ~crashed
  /\ NoDialogOpen
  /\ id \in Ids(Displayed)
  /\ selected' = NewSelected(selected, id)
  /\ crashed' = RenderThrows(selected', strats)
  /\ UNCHANGED <<rows, strats, open, formVars, batchVars, appVars, viewVars, rowVars,
                 expanded>>

\* Mutant of SelectAllResult: only the rows of the displayed page are taken.
SelectAllDisplayed(checked, list) ==
  IF checked THEN [i \in 1..Len(Displayed) |-> Displayed[i].id] ELSE <<>>

SelectAllResult(checked, list) ==
  IF checked THEN [i \in 1..Len(list) |-> list[i].id] ELSE <<>>

\* The header checkbox changes to `checked`.
handleSelectAllClick(checked) ==
  /\ ~crashed
  /\ NoDialogOpen
  /\ selected' = SelectAllResult(checked, rows)
  /\ crashed' = RenderThrows(selected', strats)
  /\ UNCHANGED <<rows, strats, open, formVars, batchVars, appVars, viewVars, rowVars,
                 expanded>>

\* The toggle of handleClick as a function of the selection and an id: it
\* reads nothing else.
Toggle(id) ==
  /\ selected' = NewSelected(selected, id)
  /\ UNCHANGED <<rows, strats, crashed, open, formVars, batchVars, appVars, viewVars,
                 rowVars, expanded>>

\* Header checkbox: indeterminate={numSelected > 0 && numSelected < rowCount}
Indeterminate(numSelected, rowCount) == numSelected > 0 /\ numSelected < rowCount

\* Mutant of Checked: the guard on an empty table is missing.
CheckedWithoutGuard(numSelected, rowCount) == numSelected = rowCount

\* Header checkbox: checked={rowCount > 0 && numSelected === rowCount}
Checked(numSelected, rowCount) == rowCount > 0 /\ numSelected = rowCount

(***************************************************************************)
(* CollapsibleTable: sort state and pagination                             *)
(***************************************************************************)
\* Mutant of NextOrder: the direction flips whatever the column.
NextOrderAnyColumn(ord, by, property) == IF ord = "asc" THEN "desc" ELSE "asc"

\* isAsc = orderBy === property && order === 'asc'; isAsc ? 'desc' : 'asc'
NextOrder(ord, by, property) ==
  LET isAsc == by = property /\ ord = "asc"
  IN  IF isAsc THEN "desc" ELSE "asc"

\* A click on the header of a column whose field is `property`.
handleRequestSort(property) ==
  /\ ~crashed
  /\ NoDialogOpen
  /\ order' = NextOrder(order, orderBy, property)
  /\ orderBy' = property
  /\ UNCHANGED <<rows, strats, crashed, selected, open, formVars, batchVars, appVars,
                 page, rowsPerPage, isExtended, rowVars>>
  /\ expanded' = ExpandedAfter

\* TableSortLabel active={orderBy === c.field}: the columns marked active.
ActiveColumns(cols, by) == {i \in 1..Len(cols) : by = cols[i].field}

\* Mutant of LastPage: a full last page is followed by one more page.
LastPageFloor(count, rpp) == count \div rpp

\* The last page TablePagination offers: its next button is disabled from
\* there on, its back button on page 0.
LastPage(count, rpp) == IF count = 0 THEN 0 ELSE (count + rpp - 1) \div rpp - 1

\* A click on the back (-1) or the next (+1) button of TablePagination.
handleChangePage(newPage) ==
  /\ ~crashed
  /\ NoDialogOpen
  /\ \/ newPage = page - 1 /\ page # 0
     \/ newPage = page + 1 /\ page < LastPage(Len(rows), rowsPerPage)
  /\ page' = newPage
  /\ UNCHANGED <<rows, strats, crashed, selected, open, formVars, batchVars, appVars,
                 order, orderBy, rowsPerPage, isExtended, rowVars>>
  /\ expanded' = ExpandedAfter

\* parseInt(value, 10) on the decimal digits of an option.
parseInt(value) == CHOOSE n \in 0..100 : ToString(n) = value

\* Mutant of handleChangeRowsPerPage: the page index is kept.
handleChangeRowsPerPageKeepPage(value) ==
  /\ ~crashed
  /\ NoDialogOpen
  /\ rowsPerPage' = parseInt(value)
  /\ UNCHANGED <<rows, strats, crashed, selected, open, formVars, batchVars,
                 appVars, order, orderBy, isExtended, rowVars, page>>
  /\ expanded' = ExpandedAfter

\* An option of the rows-per-page select is chosen; value is its text.
handleChangeRowsPerPage(value) ==
  /\ ~crashed
  /\ NoDialogOpen
  /\ rowsPerPage' = parseInt(value)
  /\ page' = 0
  /\ UNCHANGED <<rows, strats, crashed, selected, open, formVars, batchVars, appVars,
                 order, orderBy, isExtended, rowVars>>
  /\ expanded' = ExpandedAfter

\* The "Extended table" switch: the other query becomes the source of the
\* rows, with its cached result or, while it loads, with none.
handleChangeExtended(checked, cached) ==
  /\ ~crashed
  /\ NoDialogOpen
  /\ checked # isExtended
  /\ isExtended' = checked
  /\ rows' = IF cached THEN QueryRows(checked, strats) ELSE <<>>
  /\ UNCHANGED <<strats, crashed, selected, open, formVars, batchVars, appVars,
                 order, orderBy, page, rowsPerPage, rowVars>>
  /\ expanded' = ExpandedAfter

(***************************************************************************)
(* ActionToolbar and ActionDialog: opening and closing a dialog            *)
(***************************************************************************)
\* disabled={numSelected <= 0}; the lifecycle button is rendered only when
\* numSelected > 0.
\* Mutant of TriggerEnabled: the triggers ignore the selection count.
TriggerAlwaysEnabled(a, numSelected) == TRUE

TriggerEnabled(a, numSelected) == numSelected > 0

\* onClick={() => setOpenEditState(true)} and its three siblings.
OpenDialog(a) ==
  /\ ~crashed
  /\ NoDialogOpen
  /\ TriggerEnabled(a, Len(selected))
  /\ open' = [open EXCEPT ![a] = TRUE]
  /\ UNCHANGED <<tableVars, formVars, batchVars>>

\* Mutant of handleClose: closing the dialog also forgets the responses.
handleCloseClearing(a) ==
  /\ ~crashed
  /\ open[a]
  /\ open' = [open EXCEPT ![a] = FALSE]
  /\ responses' = [responses EXCEPT ![a] = EmptyObject]
  /\ UNCHANGED <<tableVars, formVars, loading, mostRecent, runs>>

\* ActionDialog.handleClose: the Cancel button or the backdrop.
handleClose(a) ==
  /\ ~crashed
  /\ open[a]
  /\ open' = [open EXCEPT ![a] = FALSE]
  /\ UNCHANGED <<tableVars, formVars, batchVars>>

\* The modal's results grid: the selected rows with their response.
gridRows(sel, resp) ==
  [i \in 1..Len(sel) |->
     [row |-> sel[i],
      response |-> IF stratKey(sel[i]) \in DOMAIN resp
                   THEN resp[stratKey(sel[i])] ELSE Undefined]]

(***************************************************************************)
(* Form fields                                                             *)
(***************************************************************************)
handleMutableFieldChange(f) ==
  /\ ~crashed
  /\ open["edit"]
  /\ mutableField' = f
  /\ UNCHANGED <<tableVars, open, batchVars, mutableFieldValue, lifecycleCmd>>

handleMutableFieldValueChange(v) ==
  /\ ~crashed
  /\ open["edit"]
  /\ mutableFieldValue' = v
  /\ UNCHANGED <<tableVars, open, batchVars, mutableField, lifecycleCmd>>

handleLifecycleCmdChange(c) ==
  /\ ~crashed
  /\ open["lifecycle"]
  /\ lifecycleCmd' = c
  /\ UNCHANGED <<tableVars, open, batchVars, mutableField, mutableFieldValue>>

(***************************************************************************)
(* Submit handlers: handleSaveState, handleResetModels,                    *)
(* handleLifecycleCmd, handleCancelOngoingOp                               *)
(***************************************************************************)
\* tktc: { type: strat.type, id: strat.id }
Tktc(strat) == [type |-> strat.type, id |-> strat.id]

\* The variables of the mutation call for one row.
MutationVariables(a, strat, field, value, cmd) ==
  CASE a = "edit" ->
         [tktc |-> Tktc(strat),
          payload |-> [field |-> field, value |-> value]]
    [] a = "reset" ->
         [tktc |-> Tktc(strat),
          payload |-> [name |-> Null, restartAfter |-> TRUE, stopTrading |-> TRUE]]
    [] a = "lifecycle" ->
         [tktc |-> Tktc(strat), payload |-> [lc |-> cmd]]
    [] a = "cancel" ->
         [tktc |-> Tktc(strat), payload |-> [none |-> TRUE]]

\* handleSaveState returns before the call when mutableField === null.
CallsMutation(a, field) == ~(a = "edit" /\ field = Null)

\* Mutant of Launch: only the first row's mutation is called at once.
LaunchFirstOnly(a, sel, field) ==
  [i \in 1..Len(sel) |-> IF CallsMutation(a, field) /\ i = 1 THEN "pending" ELSE "none"]

\* props.selected.map(async (strat) => ...): every callback runs up to its
\* first await, the mutation call, before Promise.all is awaited.
Launch(a, sel, field) ==
  [i \in 1..Len(sel) |-> IF CallsMutation(a, field) THEN "pending" ELSE "none"]

\* The data of a resolved mutation: data.state, data.resetModel, ...
Payload(a) == IF a \in {"edit", "cancel"} THEN "true" ELSE "RUNNING"

ApolloError == "ApolloError"

\* How the callback of one row ends: "pending", "rejected" (it throws) or the
\* entry it returns.
CallbackResult(a, strat, out) ==
  CASE out = "pending" -> [kind |-> "pending"]
    [] out = "none" -> [kind |-> Undefined]
    [] out = "resolved" ->
         [kind |-> "entry", key |-> stratKey(strat), value |-> Payload(a)]
    [] out = "rejected" ->
         IF a = "reset"
         THEN [kind |-> "entry", key |-> stratKey(strat), value |-> ApolloError]
         ELSE [kind |-> "rejected"]

RECURSIVE ObjectAssign(_, _)
\* Object.assign(target, ...sources): later sources overwrite, undefined
\* sources are skipped.
ObjectAssign(target, sources) ==
  IF sources = <<>> THEN target
  ELSE LET src == Head(sources)
           next == IF src.kind = Undefined THEN target
                   ELSE [k \in (DOMAIN target) \cup {src.key} |->
                           IF k = src.key THEN src.value ELSE target[k]]
       IN  ObjectAssign(next, Tail(sources))

\* Mutant of SetResponses: the new entries are merged into the old map.
SetResponsesMerging(old, entries) == ObjectAssign(old, entries)

\* setResponses(Object.assign({}, ...responses))
SetResponses(old, entries) == ObjectAssign(EmptyObject, entries)

Callbacks(run) ==
  [i \in 1..Len(run.sel) |-> CallbackResult(run.action, run.sel[i], run.out[i])]

\* Promise.all over the callbacks, as seen by the awaiting handler.
PromiseAll(results) ==
  IF \E i \in 1..Len(results) : results[i].kind = "rejected" THEN "rejected"
  ELSE IF \E i \in 1..Len(results) : results[i].kind = "pending" THEN "awaiting"
  ELSE "fulfilled"

\* The hook's loading flag when a mutation is called (Apollo useMutation).
HookOnCall(wasLoading, called) == wasLoading \/ called

\* Mutant of HookOnSettle: a failed call leaves the result loading.
HookOnSettleOkOnly(wasLoading, isMostRecent, ok) ==
  IF isMostRecent /\ ok THEN FALSE ELSE wasLoading

\* The hook's loading flag when a call settles: only the latest call of the
\* hook updates the result.
HookOnSettle(wasLoading, isMostRecent, ok) ==
  IF isMostRecent THEN FALSE ELSE wasLoading

\* LoadingButton: <Button disabled={loading}>
ButtonDisabled(isLoading) == isLoading

\* A click on the dialog's submit button.
Submit(a) ==
  /\ ~crashed
  /\ open[a]
  /\ ~ButtonDisabled(loading[a])
  /\ Len(runs) < MaxRuns
  /\ LET sel == ToolbarRows(selected, strats)
         out == Launch(a, sel, mutableField)
         called == \E i \in 1..Len(sel) : out[i] = "pending"
         calls == [i \in 1..Len(sel) |->
                     IF out[i] = "pending"
                     THEN <<MutationVariables(a, sel[i], mutableField,
                                              mutableFieldValue, lifecycleCmd)>>
                     ELSE <<>>]
         run0 == [action |-> a, sel |-> sel, calls |-> calls, out |-> out,
                  state |-> "awaiting"]
         st == PromiseAll(Callbacks(run0))
         r == Len(runs) + 1
     IN  /\ runs' = Append(runs, [run0 EXCEPT !.state = st])
         /\ loading' = [loading EXCEPT ![a] = HookOnCall(@, called)]
         /\ mostRecent' = [mostRecent EXCEPT ![a] =
                             IF called THEN <<r, Len(sel)>> ELSE @]
         /\ responses' = [responses EXCEPT ![a] =
                            IF st = "fulfilled"
                            THEN SetResponses(@, Callbacks(run0)) ELSE @]
  /\ UNCHANGED <<tableVars, open, formVars>>

\* The mutation call of row i of run r resolves (ok) or rejects.
Settle(r, i, ok) ==
  /\ ~crashed
  /\ r \in 1..Len(runs)
  /\ i \in 1..Len(runs[r].out)
  /\ runs[r].out[i] = "pending"
  /\ LET run == runs[r]
         a == run.action
         run1 == [run EXCEPT !.out[i] = IF ok THEN "resolved" ELSE "rejected"]
         st == IF run.state = "awaiting" THEN PromiseAll(Callbacks(run1))
               ELSE run.state
     IN  /\ runs' = [runs EXCEPT ![r] = [run1 EXCEPT !.state = st]]
         /\ loading' = [loading EXCEPT ![a] =
                          HookOnSettle(@, mostRecent[a] = <<r, i>>, ok)]
         /\ responses' = [responses EXCEPT ![a] =
                            IF run.state = "awaiting" /\ st = "fulfilled"
                            THEN SetResponses(@, Callbacks(run1)) ELSE @]
  /\ UNCHANGED <<tableVars, open, formVars, mostRecent>>

(***************************************************************************)
(* CollapsibleRow: the actions cell, an ActionToolbar of the row's own     *)
(***************************************************************************)
\* Mutant of RowActionProps: the row's toolbar is given the table's selection.
RowActionPropsGlobal(row) ==
  [numSelected |-> Len(selected), selected |-> selected]

\* actions({ numSelected: 1, selected: [row.id] })
RowActionProps(row) == [numSelected |-> 1, selected |-> <<row.id>>]

DisplayedRow(id) ==
  Displayed[CHOOSE i \in 1..Len(Displayed) : Displayed[i].id = id]

\* Mutant of ExpandClick: expanding a row collapses every other row.
ExpandClickAccordion(id) ==
  /\ ~crashed
  /\ NoDialogOpen
  /\ id \in Ids(Displayed)
  /\ expanded' = [j \in RowIds |-> j = id /\ ~expanded[id]]
  /\ selected' = NewSelected(selected, id)
  /\ crashed' = RenderThrows(selected', strats)
  /\ UNCHANGED <<rows, strats, open, formVars, batchVars, appVars, viewVars,
                 rowVars>>

\* A click on the expand button of the row: onClick={() => setOpen(!open)}.
\* The button is inside the TableRow and does not stop the click, which
\* reaches the row's onClick (handleClick) as well.
ExpandClick(id) ==
  /\ ~crashed
  /\ NoDialogOpen
  /\ id \in Ids(Displayed)
  /\ expanded' = [expanded EXCEPT ![id] = ~@]
  /\ selected' = NewSelected(selected, id)
  /\ crashed' = RenderThrows(selected', strats)
  /\ UNCHANGED <<rows, strats, open, formVars, batchVars, appVars, viewVars,
                 rowVars>>

\* A click on an action button of the row: the row's dialog opens.  The
\* button is inside the TableRow, whose onClick (handleClick) the click
\* reaches as well.
RowOpenDialog(id, a) ==
  /\ ~crashed
  /\ NoDialogOpen
  /\ id \in Ids(Displayed)
  /\ TriggerEnabled(a, RowActionProps(DisplayedRow(id)).numSelected)
  /\ rowOpen' = <<id, a>>
  /\ selected' = NewSelected(selected, id)
  /\ crashed' = RenderThrows(selected', strats)
  /\ UNCHANGED <<rows, strats, open, formVars, batchVars, appVars, viewVars, rowRuns,
                 expanded>>

\* handleClose of the row's dialog.  The dialog is a React child of the
\* TableRow: a click inside it reaches the row's onClick too.
RowClose(id, a) ==
  /\ ~crashed
  /\ rowOpen = <<id, a>>
  /\ rowOpen' = NoRowDialog
  /\ selected' = NewSelected(selected, id)
  /\ crashed' = RenderThrows(selected', strats)
  /\ UNCHANGED <<rows, strats, open, formVars, batchVars, appVars, viewVars, rowRuns,
                 expanded>>

\* The row's dialog has a submit in flight: its button is disabled.  The
\* mutations of the rows' dialogs stay in flight in this model.
RowLoading(id, a) ==
  \E r \in 1..Len(rowRuns) :
    /\ rowRuns[r].row = id
    /\ rowRuns[r].action = a
    /\ \E i \in 1..Len(rowRuns[r].out) : rowRuns[r].out[i] = "pending"

\* A click on the submit button of the row's dialog, its form untouched.
RowSubmit(id, a) ==
  /\ ~crashed
  /\ rowOpen = <<id, a>>
  /\ ~ButtonDisabled(RowLoading(id, a))
  /\ Len(rowRuns) < MaxRuns
  /\ LET props == RowActionProps(DisplayedRow(id))
         sel == ToolbarRows(props.selected, strats)
         out == Launch(a, sel, InitialMutableField)
         calls == [i \in 1..Len(sel) |->
                     IF out[i] = "pending"
                     THEN <<MutationVariables(a, sel[i], InitialMutableField,
                                              InitialMutableFieldValue,
                                              InitialLifecycleCmd)>>
                     ELSE <<>>]
     IN  rowRuns' = Append(rowRuns,
                           [row |-> id, action |-> a, props |-> props,
                            global |-> selected, sel |-> sel, calls |-> calls,
                            out |-> out])
  /\ selected' = NewSelected(selected, id)
  /\ crashed' = RenderThrows(selected', strats)
  /\ UNCHANGED <<rows, strats, open, formVars, batchVars, appVars, viewVars, rowOpen,
                 expanded>>

(***************************************************************************)
(* Settings and App: changing the target host, the storage event           *)
(***************************************************************************)
\* The state of the Strategy page, which these handlers do not touch.
strategyVars ==
  <<rows, strats, crashed, selected, viewVars, rowVars, expanded, open,
    formVars, batchVars>>

\* Settings is mounted in tab t: useState(currentGraphQLUri().host).
MountSettings(t) ==
  /\ targetHost[t] = NotMounted
  /\ targetHost' = [targetHost EXCEPT ![t] = currentGraphQLUri(stored).host]
  /\ UNCHANGED <<strategyVars, stored, apollo, pending>>

\* The user leaves Settings in tab t: its state is gone.
UnmountSettings(t) ==
  /\ targetHost[t] # NotMounted
  /\ targetHost' = [targetHost EXCEPT ![t] = NotMounted]
  /\ UNCHANGED <<strategyVars, stored, apollo, pending>>

\* Storage.setItem notifies the other tabs when the value changes; the tab
\* that writes gets no storage event.
StorageEvents(t, old, new) ==
  [u \in Tabs |-> IF u # t /\ new # old THEN pending[u] + 1 ELSE pending[u]]

\* A host is chosen in the select of Settings in tab t; the select calls
\* onChange only for a value other than the one it shows.
handleTargetHostChange(t, host) ==
  /\ targetHost[t] # NotMounted
  /\ host # targetHost[t]
  /\ \A u \in Tabs : StorageEvents(t, stored, host)[u] <= MaxPending
  /\ targetHost' = [targetHost EXCEPT ![t] = host]
  /\ stored' = host
  /\ pending' = StorageEvents(t, stored, host)
  /\ UNCHANGED <<strategyVars, apollo>>

\* Mutant of checkTargetHost: the item is logged, the client is kept.
checkTargetHostLogOnly(t) ==
  /\ pending[t] > 0
  /\ pending' = [pending EXCEPT ![t] = @ - 1]
  /\ UNCHANGED <<strategyVars, stored, targetHost, apollo>>

\* The storage listener of App runs in tab t.
checkTargetHost(t) ==
  /\ pending[t] > 0
  /\ pending' = [pending EXCEPT ![t] = @ - 1]
  /\ apollo' = [apollo EXCEPT ![t] =
                  IF Truthy(stored) THEN createClient(stored, stored) ELSE @]
  /\ UNCHANGED <<strategyVars, stored, targetHost>>

(***************************************************************************)
(* Specifications                                                          *)
(***************************************************************************)
\* The dashboard with a loaded strategy list: selection and batch dialogs.
Next ==
  \/ StratsLoaded(BatchStrats)
  \/ \E id \in Ids(rows) : handleClick(id)
  \/ \E checked \in BOOLEAN : handleSelectAllClick(checked)
  \/ \E a \in Actions : OpenDialog(a)
  \/ \E a \in Actions : handleClose(a)
  \/ \E a \in Actions : Submit(a)
  \/ \E r \in 1..MaxRuns, i \in 1..MaxRows, ok \in BOOLEAN : Settle(r, i, ok)

Spec == Init /\ [][Next]_vars

\* The table alone, with the row set replaced under it.
NextTable ==
  \/ \E list \in RowLists : StratsLoaded(list)
  \/ \E list \in RowLists : ReplaceRows(list)
  \/ \E id \in Ids(rows) : handleClick(id)
  \/ \E checked \in BOOLEAN : handleSelectAllClick(checked)
  \/ \E i \in 1..Len(TableColumns(isExtended)) :
       handleRequestSort(TableColumns(isExtended)[i].field)
  \/ \E checked, cached \in BOOLEAN : handleChangeExtended(checked, cached)

SpecTable == Init /\ [][NextTable]_vars

\* The table on a row set of more than one page: sorting, paging, selecting.
NextPage ==
  \/ StratsLoaded(PageStrats)
  \/ \E id \in Ids(rows) : handleClick(id)
  \/ \E checked \in BOOLEAN : handleSelectAllClick(checked)
  \/ \E i \in 1..Len(TableColumns(isExtended)) :
       handleRequestSort(TableColumns(isExtended)[i].field)
  \/ \E newPage \in {page - 1, page + 1} : handleChangePage(newPage)
  \/ \E i \in 1..Len(rowsPerPageOptions) :
       handleChangeRowsPerPage(ToString(rowsPerPageOptions[i]))

SpecPage == Init /\ [][NextPage]_vars

\* The lists a query delivers to the paginated table: from none to all of
\* the strategies.
PagePrefixes == {SubSeq(PageStrats, 1, n) : n \in 0..MaxPageRows}

\* The table's pagination and sort under row sets of changing length.
NextPaging ==
  \/ StratsLoaded(PageStrats)
  \/ \E list \in PagePrefixes : ReplaceRows(list)
  \/ \E i \in 1..Len(TableColumns(isExtended)) :
       handleRequestSort(TableColumns(isExtended)[i].field)
  \/ \E newPage \in {page - 1, page + 1} : handleChangePage(newPage)
  \/ \E i \in 1..Len(rowsPerPageOptions) :
       handleChangeRowsPerPage(ToString(rowsPerPageOptions[i]))

SpecPaging == Init /\ [][NextPaging]_vars

\* The rows of the table: selecting, expanding, opening a row's dialog.
NextExpand ==
  \/ \E list \in RowLists : StratsLoaded(list)
  \/ \E list \in RowLists : ReplaceRows(list)
  \/ \E id \in Ids(rows) : handleClick(id)
  \/ \E checked \in BOOLEAN : handleSelectAllClick(checked)
  \/ \E id \in Ids(rows) : ExpandClick(id)
  \/ \E id \in Ids(rows), a \in Actions : RowOpenDialog(id, a)
  \/ \E id \in Ids(rows), a \in Actions : RowClose(id, a)

SpecExpand == Init /\ [][NextExpand]_vars

\* The batch dialogs on two strategies whose ids and types hold underscores.
KeyStrats == <<Strat(1), Strat(3)>>

NextKeys ==
  \/ StratsLoaded(KeyStrats)
  \/ \E id \in Ids(rows) : handleClick(id)
  \/ \E checked \in BOOLEAN : handleSelectAllClick(checked)
  \/ \E a \in Actions : OpenDialog(a)
  \/ \E a \in Actions : handleClose(a)
  \/ \E a \in Actions : Submit(a)
  \/ \E r \in 1..MaxRuns, i \in 1..MaxRows, ok \in BOOLEAN : Settle(r, i, ok)

SpecKeys == Init /\ [][NextKeys]_vars

\* The tabs of one browser: what localStorage holds when they start is any
\* host of the list, or nothing.
InitTabs ==
  /\ rows = <<>>
  /\ strats = <<>>
  /\ selected = <<>>
  /\ InitOther
  /\ \E item \in ServerHosts \cup {Null} : InitApp(item)

NextTabs ==
  \/ \E t \in Tabs : MountSettings(t)
  \/ \E t \in Tabs : UnmountSettings(t)
  \/ \E t \in Tabs, host \in ServerHosts : handleTargetHostChange(t, host)
  \/ \E t \in Tabs : checkTargetHost(t)

SpecTabs == InitTabs /\ [][NextTabs]_vars

\* The browser dispatches every storage event it has queued for a tab.
SpecTabsFair ==
  /\ InitTabs
  /\ [][NextTabs]_vars
  /\ \A t \in Tabs : WF_vars(checkTargetHost(t))

\* The selection toggle as a function: any selection over any row set, any id.
InitToggle ==
  /\ rows \in RowLists
  /\ strats = rows
  /\ selected \in Selections(rows)
  /\ InitOther
  /\ InitApp(Null)

NextToggle == \E i \in 1..MaxRows : Toggle(StratId(i))

\* The rows' own action dialogs next to the table's selection.
NextRow ==
  \/ StratsLoaded(BatchStrats)
  \/ \E id \in Ids(rows) : handleClick(id)
  \/ \E checked \in BOOLEAN : handleSelectAllClick(checked)
  \/ \E id \in Ids(rows), a \in Actions : RowOpenDialog(id, a)
  \/ \E id \in Ids(rows), a \in Actions : RowClose(id, a)
  \/ \E id \in Ids(rows), a \in Actions : RowSubmit(id, a)

SpecToggle == InitToggle /\ [][NextToggle]_vars

SpecRow == Init /\ [][NextRow]_vars

\* The dialogs' forms and submit buttons, with every mutation still in flight.
NextForm ==
  \/ StratsLoaded(BatchStrats)
  \/ \E id \in Ids(rows) : handleClick(id)
  \/ \E checked \in BOOLEAN : handleSelectAllClick(checked)
  \/ \E a \in Actions : OpenDialog(a)
  \/ \E a \in Actions : handleClose(a)
  \/ \E f \in MutableField : handleMutableFieldChange(f)
  \/ \E v \in 0..MaxValue : handleMutableFieldValueChange(v)
  \/ \E c \in StrategyLifecycleCmd : handleLifecycleCmdChange(c)
  \/ \E a \in Actions : Submit(a)

SpecForm == Init /\ [][NextForm]_vars

(***************************************************************************)
(* Properties                                                              *)
(***************************************************************************)
RunsOf(a) == {r \in 1..Len(runs) : runs[r].action = a}

Settled(run) == \A i \in 1..Len(run.out) : run.out[i] # "pending"

Mixed(run) ==
  /\ \E i \in 1..Len(run.out) : run.out[i] = "resolved"
  /\ \E i \in 1..Len(run.out) : run.out[i] = "rejected"

\* The value the claim expects under a row's key: the payload or the error.
Outcome(run, i) ==
  IF run.out[i] = "resolved" THEN Payload(run.action) ELSE ApolloError

RunKeys(run) == {stratKey(run.sel[i]) : i \in 1..Len(run.sel)}

RecordsAll(run, resp) ==
  \A i \in 1..Len(run.sel) :
    /\ stratKey(run.sel[i]) \in DOMAIN resp
    /\ resp[stratKey(run.sel[i])] = Outcome(run, i)

\* C1: whenever the last pending mutation of a batch settles, and some rows of
\* the batch resolved while others rejected, the response map of that action
\* holds the payload of every resolved row and the error of every rejected row.
C1_AllSettledRecorded ==
  [][\A r \in 1..Len(runs) :
       (~Settled(runs[r]) /\ Settled(runs'[r]) /\ Mixed(runs'[r]))
         => RecordsAll(runs'[r], responses'[runs[r].action])]_vars

\* C2: a submit with selection S calls the action's mutation exactly once per
\* row of S, in order, with that row's (type, id) and the payload of the form,
\* and for no other row.
C2_OncePerSelectedRow ==
  [][Len(runs') > Len(runs) =>
       LET run == runs'[Len(runs')]
           a == run.action
       IN  /\ Len(run.calls) = Len(selected)
           /\ \A i \in 1..Len(selected) :
                /\ Len(run.calls[i]) = 1
                /\ run.calls[i][1].tktc.id = selected[i]
                /\ \E j \in 1..Len(rows) :
                     /\ rows[j].id = selected[i]
                     /\ run.calls[i][1].tktc.type = rows[j].type
                /\ a = "edit" =>
                     /\ run.calls[i][1].payload.field = mutableField
                     /\ run.calls[i][1].payload.value = mutableFieldValue
                /\ a = "lifecycle" => run.calls[i][1].payload.lc = lifecycleCmd
                /\ a = "reset" =>
                     /\ run.calls[i][1].payload.name = Null
                     /\ run.calls[i][1].payload.restartAfter
                     /\ run.calls[i][1].payload.stopTrading]_vars

\* C2 witness: a lifecycle command was sent for one selected row of two.
C2_Witness ==
  \E r \in 1..Len(runs) :
    /\ runs[r].action = "lifecycle"
    /\ Len(rows) = 2
    /\ Len(runs[r].sel) = 1
    /\ runs[r].calls[1][1].payload.lc = "STOP_TRADING"

\* C3: once every mutation of an action's batches has settled, resolved or
\* rejected, the dialog is no longer submitting: its button is enabled.
C3_LeavesSubmitting ==
  \A a \in Actions :
    (\A r \in RunsOf(a) : Settled(runs[r])) => ~ButtonDisabled(loading[a])

\* C3 witness: a batch of two rows has settled with a rejection.
C3_Witness ==
  \E r \in 1..Len(runs) :
    /\ Len(runs[r].sel) = 2
    /\ Settled(runs[r])
    /\ runs[r].out[2] = "rejected"
    /\ ~loading[runs[r].action]

\* C4: while any mutation of an action's batch is in flight, the dialog is
\* submitting: its button is disabled.
C4_SubmittingUntilSettled ==
  \A a \in Actions :
    (\E r \in RunsOf(a) : ~Settled(runs[r])) => ButtonDisabled(loading[a])

\* C5: no step changes an action's response map and leaves a mutation of a
\* batch of that action pending.
C5_NoWriteWhilePending ==
  [][\A a \in Actions :
       (\E r \in 1..Len(runs') : runs'[r].action = a /\ ~Settled(runs'[r]))
         => responses'[a] = responses[a]]_vars

\* C6: when a submit handler starts to wait, the mutation of every selected
\* row has been called and none of them has settled.
C6_FanOut ==
  [][Len(runs') > Len(runs) =>
       LET run == runs'[Len(runs')]
       IN  /\ Len(run.out) = Len(run.sel)
           /\ \A i \in 1..Len(run.sel) :
                run.out[i] = "pending" /\ Len(run.calls[i]) = 1]_vars

\* C6 witness: the second row's mutation has settled while the first row's
\* is still pending.
C6_Witness ==
  \E r \in 1..Len(runs) :
    /\ Len(runs[r].sel) = 2
    /\ runs[r].out[1] = "pending"
    /\ runs[r].out[2] # "pending"

\* C7: no submit handler's promise rejects.
C7_NeverThrown == \A r \in 1..Len(runs) : runs[r].state # "rejected"

C9_ReopenKeepsResponses ==
  [][(open' # open) =>
       /\ responses' = responses
       /\ \A a \in Actions :
            gridRows(ToolbarRows(selected', strats'), responses'[a])
              = gridRows(ToolbarRows(selected, strats), responses[a])]_vars

\* C9 witness: a dialog whose batch has completed was closed and, after the
\* selection was changed, reopened; it still holds that batch's responses.
C9_Witness ==
  \E a \in Actions :
    /\ open[a]
    /\ Len(selected) = 1
    /\ \E r \in RunsOf(a) :
         /\ runs[r].state = "fulfilled"
         /\ Len(runs[r].sel) = 2
         /\ DOMAIN responses[a] = RunKeys(runs[r])

\* C10: every selected id is the id of a row of the row set, so the selection
\* is no larger than the row set.
C10_SelectionWithinRows ==
  ~crashed =>
    /\ \A i \in 1..Len(selected) : selected[i] \in Ids(rows)
    /\ Len(selected) <= Len(rows)

Range(seq) == {seq[i] : i \in 1..Len(seq)}

\* C11: a click on a row adds the row's id to the selection when it is absent
\* and removes it when it is present, changes the membership of no other id,
\* and a second click on the same row restores the membership.
C11_ToggleMembership ==
  [][\A id \in Ids(rows) :
       handleClick(id) =>
         /\ (id \in Range(selected')) <=> (id \notin Range(selected))
         /\ Range(selected') \ {id} = Range(selected) \ {id}
         /\ Range(NewSelected(selected', id)) = Range(selected)]_vars

\* C11 witness: a selection built by single clicks, in an order that is not
\* the order of the rows, after an id in the middle was clicked away.
C11_Witness ==
  /\ ~crashed
  /\ Len(rows) = 3
  /\ selected = <<rows[3].id, rows[1].id>>

\* C12: select-all with true selects exactly the ids of all rows, on every
\* page, whatever was selected; with false it empties the selection.
C12_SelectAll ==
  [][\A checked \in BOOLEAN :
       handleSelectAllClick(checked) =>
         IF checked
         THEN Range(selected') = Ids(rows) /\ Len(selected') = Len(rows)
         ELSE selected' = <<>>]_vars

\* C12 witness: every row is selected, in row order, while the displayed page
\* is the second page and shows fewer rows than the row set has.
C12_Witness ==
  /\ Len(rows) > rowsPerPage
  /\ page = 1
  /\ Len(Displayed) < Len(rows)
  /\ selected = [i \in 1..Len(rows) |-> rows[i].id]

C14_HeaderCheckbox ==
  LET count == Cardinality(Range(selected))
      total == Len(rows)
      indeterminate == Indeterminate(Len(selected), Len(rows))
      checked == Checked(Len(selected), Len(rows))
  IN  /\ indeterminate <=> (0 < count /\ count < total)
      /\ checked <=> (total > 0 /\ count = total)
      /\ ~(indeterminate /\ checked)

\* C14 witness: two of three rows are selected and the header checkbox is
\* indeterminate.
C14_Witness ==
  /\ ~crashed
  /\ Len(rows) = 3
  /\ Len(selected) = 2
  /\ Indeterminate(Len(selected), Len(rows))
  /\ selected = <<rows[2].id, rows[3].id>>

\* C15: a dialog of the toolbar is opened only while the selection is not
\* empty: with an empty selection no trigger of the toolbar is enabled.
C15_NoDialogOnEmptySelection ==
  [][\A a \in Actions :
       /\ (~open[a] /\ open'[a]) => Len(selected) > 0
       /\ Len(selected) = 0 => ~TriggerEnabled(a, Len(selected))]_vars

\* C15 witness: nothing is selected and no dialog is open, after a dialog
\* was opened from the toolbar and a batch was submitted from it.
C15_Witness ==
  /\ ~crashed
  /\ rows # <<>>
  /\ selected = <<>>
  /\ NoDialogOpen
  /\ runs # <<>>

\* C16: the dialog of row X is given the selection [X.id] with count 1 and its
\* submit calls the mutation for row X and for no other row, whatever the
\* table's selection is.
C16_RowActionScope ==
  \A r \in 1..Len(rowRuns) :
    LET run == rowRuns[r]
    IN  /\ run.props = [numSelected |-> 1, selected |-> <<run.row>>]
        /\ Len(run.sel) = 1
        /\ run.sel[1].id = run.row
        /\ Len(run.calls) = 1
        /\ Len(run.calls[1]) = 1
        /\ run.calls[1][1].tktc.id = run.row

\* C16 witness: a row's dialog was submitted while other rows were selected
\* in the table and that row was not.
C16_Witness ==
  \E r \in 1..Len(rowRuns) :
    /\ rowRuns[r].global # <<>>
    /\ rowRuns[r].row \notin Range(rowRuns[r].global)

\* The position of the row with this id in a list of rows.
PositionOf(list, id) == CHOOSE i \in 1..Len(list) : list[i].id = id

Sorted == stableSort(rows, order, orderBy)

\* Two rows have equal values in the column `by`.
Tied(a, b, by) == Value(a, by) = Value(b, by)

\* C17: in the sorted rows, whatever the column and the direction, rows with
\* equal values in the active column are in the order they have in the row
\* set, every row is there once, and sorting the sorted rows again changes
\* nothing.
C17_StableSort ==
  /\ Len(Sorted) = Len(rows)
  /\ Range(Sorted) = Range(rows)
  /\ \A i, j \in 1..Len(Sorted) :
       (i < j /\ Tied(Sorted[i], Sorted[j], orderBy)) =>
         PositionOf(rows, Sorted[i].id) < PositionOf(rows, Sorted[j].id)
  /\ stableSort(Sorted, order, orderBy) = Sorted

\* C17 witness: a descending sort on a column in which two rows have equal
\* values and a third has another one, and which moves rows.
C17_Witness ==
  /\ order = "desc"
  /\ orderBy = "type"
  /\ Len(rows) = 3
  /\ Tied(rows[1], rows[3], orderBy)
  /\ ~Tied(rows[1], rows[2], orderBy)
  /\ Sorted # rows

Reverse(seq) == [i \in 1..Len(seq) |-> seq[Len(seq) + 1 - i]]

\* The rows of the table body after the step.
DisplayedAfter == DisplayedRows(rows', order', orderBy', page', rowsPerPage')

\* A click on the header of the column that is active and ascending.
ClickOnActiveAscending ==
  /\ order = "asc"
  /\ handleRequestSort(orderBy)

\* C18, as stated: a click on the header of the active ascending column
\* displays the rows in the exact reverse of the ascending order.
C18_ExactReverse ==
  [][ClickOnActiveAscending => DisplayedAfter = Reverse(Displayed)]_vars

\* C18, amended: after that click two rows with different values in the
\* column are in the opposite order, two rows with equal values are in the
\* same order as before; without equal values it is the exact reverse.
C18_ReverseExceptTies ==
  [][ClickOnActiveAscending =>
       /\ Len(DisplayedAfter) = Len(Displayed)
       /\ \A i, j \in 1..Len(Displayed) :
            i < j =>
              LET pi == PositionOf(DisplayedAfter, Displayed[i].id)
                  pj == PositionOf(DisplayedAfter, Displayed[j].id)
              IN  IF Tied(Displayed[i], Displayed[j], orderBy)
                  THEN pi < pj ELSE pi > pj
       /\ (\A i, j \in 1..Len(Displayed) :
             i # j => ~Tied(Displayed[i], Displayed[j], orderBy))
          => DisplayedAfter = Reverse(Displayed)]_vars

\* C18 witness: the table is sorted descending on a column in which two of
\* the three rows have equal values, so the order is not the reverse of the
\* ascending one.
C18_Witness ==
  /\ order = "desc"
  /\ orderBy = "type"
  /\ Len(rows) = 3
  /\ \E i, j \in 1..3 : i # j /\ Tied(rows[i], rows[j], orderBy)
  /\ \E i, j \in 1..3 : ~Tied(rows[i], rows[j], orderBy)
  /\ Displayed # Reverse(stableSort(rows, "asc", orderBy))

\* C19: the table starts ascending on the default column; a click on a header
\* makes its column the sort key, descending exactly when that column was
\* the sort key and ascending, ascending otherwise.
C19_SortState ==
  /\ order = "asc" /\ orderBy = defaultSortCol
  /\ [][\A property \in Fields(TableColumns(TRUE)) :
          handleRequestSort(property) =>
            /\ orderBy' = property
            /\ order' \in {"asc", "desc"}
            /\ order' = "desc" <=> (orderBy = property /\ order = "asc")]_vars

\* C19 witness: descending on a column that is not the default column, which
\* takes a click on another column and a second click on it.
C19_Witness ==
  /\ order = "desc"
  /\ orderBy = "status"

\* C20: exactly one column of the column list is marked active.
C20_OneActiveColumn ==
  Cardinality(ActiveColumns(TableColumns(isExtended), orderBy)) = 1

\* The rows page p would display.
PageOf(p) == DisplayedRows(rows, order, orderBy, p, rowsPerPage)

RECURSIVE ConcatPages(_)
\* The pages 0..p, one after the other.
ConcatPages(p) == IF p < 0 THEN <<>> ELSE ConcatPages(p - 1) \o PageOf(p)

\* The 0-based positions of the sorted rows that fall on the page.
PageWindow ==
  {k \in 0..(Len(rows) - 1) :
     page * rowsPerPage <= k /\ k < page * rowsPerPage + rowsPerPage}

\* C21: the displayed rows are the sorted rows at the positions
\* [page*size, page*size+size), in order, and the pages from the first to the
\* last, one after the other, are the sorted rows.
C21_PageIsSlice ==
  /\ Len(Displayed) = Cardinality(PageWindow)
  /\ \A k \in 1..Len(Displayed) :
       Displayed[k] = Sorted[page * rowsPerPage + k]
  /\ ConcatPages(LastPage(Len(rows), rowsPerPage)) = Sorted

\* C21 witness: the second page of six rows sorted descending, five per page.
C21_Witness ==
  /\ Len(rows) = MaxPageRows
  /\ order = "desc"
  /\ page = 1
  /\ Len(Displayed) = MaxPageRows - rowsPerPage
  /\ Sorted # rows

\* C22: page index times page size does not exceed the row count.
C22_WindowWithinRows == page * rowsPerPage <= Len(rows)

\* C23: a change of the page size sets the page index to 0, whatever the page
\* index and the two sizes are.
C23_PageSizeResetsPage ==
  [][\A i \in 1..Len(rowsPerPageOptions) :
       handleChangeRowsPerPage(ToString(rowsPerPageOptions[i])) =>
         page' = 0 /\ rowsPerPage' = rowsPerPageOptions[i]]_vars

\* C23 witness: the largest page size was chosen and the table is on page 0.
C23_Witness ==
  /\ Len(rows) = MaxPageRows
  /\ rowsPerPage = rowsPerPageOptions[Len(rowsPerPageOptions)]
  /\ page = 0

\* N - P*floor(N/P) if it is not zero, else P.
LastPageRows(n, p) ==
  IF n - p * (n \div p) # 0 THEN n - p * (n \div p) ELSE p

\* C24, as stated: on the last page the table displays N - P*floor(N/P)
\* rows if that is not zero and P rows otherwise, for every row count N.
C24_LastPageCount ==
  page = LastPage(Len(rows), rowsPerPage) =>
    Len(Displayed) = LastPageRows(Len(rows), rowsPerPage)

\* C24, amended: the same for every row count N of at least 1.
C24_LastPageCountNonEmpty ==
  (Len(rows) >= 1 /\ page = LastPage(Len(rows), rowsPerPage)) =>
    Len(Displayed) = LastPageRows(Len(rows), rowsPerPage)

\* C24 witness: a last page that is full, its row count a multiple of the
\* page size.
C24_Witness ==
  /\ Len(rows) = rowsPerPage
  /\ page = LastPage(Len(rows), rowsPerPage)
  /\ Len(Displayed) = rowsPerPage

\* C25: every row starts collapsed, also a row that enters the table body
\* later; a click on the expand button of row X flips the expansion state of
\* X and of no other row.
C25_ExpansionPerRow ==
  /\ \A id \in RowIds : ~expanded[id]
  /\ [][/\ \A id \in Ids(rows) :
            ExpandClick(id) =>
              /\ expanded'[id] = ~expanded[id]
              /\ \A other \in RowIds \ {id} : expanded'[other] = expanded[other]
        /\ \A id \in Ids(DisplayedAfter) \ Ids(Displayed) : ~expanded'[id]]_vars

\* C25 witness: two rows are expanded at once while a third is collapsed.
C25_Witness ==
  /\ ~crashed
  /\ Len(rows) = 3
  /\ expanded[rows[1].id]
  /\ ~expanded[rows[2].id]
  /\ expanded[rows[3].id]

\* C29: a step that toggles a row's expansion or opens a row's own action
\* dialog leaves the selection as it was.
C29_SelectionFrame ==
  [][(\/ \E id \in Ids(Displayed) : expanded'[id] # expanded[id]
      \/ rowOpen = NoRowDialog /\ rowOpen' # NoRowDialog)
     => selected' = selected]_vars

\* C26: a tab that has a storage event to receive eventually has a client
\* that targets the stored host.
C26_OtherTabsFollow ==
  \A t \in Tabs : (pending[t] > 0) ~> (apollo[t] = stored)

\* C26 witness: the host was changed in Settings of one tab, whose own client
\* has not changed, and the client of another tab targets the new host.
C26_Witness ==
  \E t, u \in Tabs :
    /\ t # u
    /\ targetHost[u] = stored
    /\ apollo[u] # stored
    /\ targetHost[t] = NotMounted
    /\ pending[t] = 0
    /\ apollo[t] = stored

\* C27: closing a dialog while calls are pending changes no run and no
\* loading flag, and when the last call of a run settles while the dialog is
\* closed the response map holds that run's outcomes.
C27_NoCancellation ==
  [][/\ \A a \in Actions :
          (open[a] /\ ~open'[a]) => runs' = runs /\ loading' = loading
     /\ \A r \in 1..Len(runs) :
          (/\ ~Settled(runs[r])
           /\ Settled(runs'[r])
           /\ ~open[runs[r].action])
            => RecordsAll(runs'[r], responses'[runs[r].action])]_vars

\* The response the grid of the run's action shows for row i of the run.
Shown(run, resp, i) == gridRows(run.sel, resp)[i].response

\* C28: a submit issues calls for the rows selected at that moment; no later
\* step adds or removes a row or a call of a run; and when a run completes,
\* the grid shows for each of its rows the outcome of that row's own call.
C28_OutcomeUnderOwnRow ==
  [][/\ Len(runs') > Len(runs) =>
          [i \in 1..Len(runs'[Len(runs')].sel) |-> runs'[Len(runs')].sel[i].id]
            = selected
     /\ \A r \in 1..Len(runs) :
          /\ runs'[r].sel = runs[r].sel
          /\ runs'[r].calls = runs[r].calls
          /\ (runs[r].state = "awaiting" /\ runs'[r].state = "fulfilled") =>
               \A i \in 1..Len(runs[r].sel) :
                 Shown(runs[r], responses'[runs[r].action], i)
                   = Callbacks(runs'[r])[i].value]_vars

\* C30: in every tab in which Settings is mounted, the host it shows as
\* selected is the host the tab's client targets.
C30_ShownHostIsTarget ==
  \A t \in Tabs : targetHost[t] # NotMounted => targetHost[t] = apollo[t]

====
